---- MODULE Spec2Model ----
(***************************************************************************)
(* Model of src/src/lib/stores.ts (sveltefire): docStore, collectionStore  *)
(* and userStore.  One behaviour follows ONE store instance from its       *)
(* construction: Init draws the constructor that was called and its        *)
(* arguments, the actions are the methods of the returned object and the   *)
(* callbacks the backend invokes on it.                                    *)
(*                                                                         *)
(* Data.  A record of a collection is a function from the names of the     *)
(* fields it has to their values: "id" (a string), "ref" (a document       *)
(* reference) and the payload field "v" (a number).  A field that is       *)
(* absent from the JavaScript object is absent from the DOMAIN.  A         *)
(* document reference is its path (collection and document id) and the     *)
(* call that made the object: a snapshot's s.ref or doc(colRef, id).       *)
(*                                                                         *)
(* Objects.  Arrays and records are JavaScript objects: the store's value  *)
(* may be the internalDocs array itself, or another array holding record   *)
(* objects of internalDocs, and code outside the store may hold them too.  *)
(* The variables shared, linked and exposed say which objects are one and  *)
(* the same, so that a change made in place shows wherever the object is.  *)
(***************************************************************************)
EXTENDS Integers, Sequences, FiniteSets, TLC

MaxConsumers == 2

Consumers == 1..MaxConsumers
Ids       == {"a", "b"}
IdOrder   == <<"a", "b">>
Vals      == {1, 2}

VARIABLES
    kind,          \* which constructor built the instance: "doc", "col", "user"
    live,          \* TRUE iff the backend handle is present and globalThis.window exists
    colType,       \* colRef.type of a collection store: "collection" or "query"
    subscribers,   \* the consumers attached to the svelte store
    listeners,     \* number of open backend listeners (onSnapshot / onAuthStateChanged)
    value,         \* the svelte store's value: the Local Snapshot
    internalDocs,  \* collectionStore's internalDocs: the Remote Snapshot
    shared,        \* TRUE iff the store's value is the internalDocs array itself
    linked,        \* linked[i] = j > 0 iff value[i] is the record object internalDocs[j]
    exposed,       \* TRUE iff the internalDocs array has been handed to code outside the store
    last           \* history: the most recent call or callback, its inputs and effects

vars == <<kind, live, colType, subscribers, listeners, value, internalDocs,
          shared, linked, exposed, last>>

----------------------------------------------------------------------------
(* JavaScript values *)

Null      == [isNull |-> TRUE]
Undefined == [isUndefined |-> TRUE]
NoRef     == [isUndefined |-> TRUE]

\* !x for a value that is an object, null or undefined
falsy(x) == x = Null \/ x = Undefined

\* { k, ...rest } = r : the object without its own property k
Rest(r, k) == [f \in DOMAIN r \ {k} |-> r[f]]

\* r.k is truthy: the property is there and is neither undefined, null nor ''
\* (ids are strings, every other field is an object, null or undefined)
has(r, k) ==
    /\ k \in DOMAIN r
    /\ IF k = "id" THEN r[k] # "" ELSE ~falsy(r[k])

\* s.ref: the reference object a snapshot carries for the document id of the
\* store's collection
SnapshotRef(id) == [col |-> "col", id |-> id, by |-> "snapshot"]

\* doc(colRef, id): the reference object built for document id of the
\* store's collection
DocRef(id) == [col |-> "col", id |-> id]

\* a reference to a document of the same id outside the store's collection
ForeignRef(id) == [col |-> "other", id |-> id]

\* typeof x === 'object' && x !== null, for the value of a property ref
isObject(x) == "col" \in DOMAIN x

\* the number NaN, written 0 (every other number of the model is positive)
NaN == 0

\* @firebase/util deepEqual on the values x and y of property k.
\* Two objects are compared by deepEqual again: references are equal when they
\* are one object or were made the same way for the same document; for a
\* reference built by doc() against a snapshot's reference of the same
\* document the outcome rests on the private fields of the SDK's objects, and
\* alike stands for it. Anything else is compared with !==, under which the
\* number NaN differs from itself.
sameProp(k, x, y, alike) ==
    CASE k = "ref" -> \/ x = y
                      \/ /\ isObject(x) /\ isObject(y)
                         /\ x.col = y.col /\ x.id = y.id /\ alike
      [] k = "v"   -> x = y /\ x # NaN
      [] OTHER     -> x = y

\* @firebase/util deepEqual on two records that are not one object: the same
\* keys, and equal values under every key
deepEqual(a, b, alike) ==
    /\ \A k \in DOMAIN a : k \in DOMAIN b /\ sameProp(k, a[k], b[k], alike)
    /\ \A k \in DOMAIN b : k \in DOMAIN a

ids(docs) == {docs[i].id : i \in 1..Len(docs)}

\* the positions 1..n in order
positions(n) == [i \in 1..n |-> i]

none(n) == [i \in 1..n |-> 0]

\* An array is handled through a reference: docs is its content, same tells
\* whether it is the array internalDocs currently names, and link[i] is the
\* position in internalDocs of the record object it holds at i (0 when that
\* record is no object of internalDocs).
internalRef(docs) == [docs |-> docs, same |-> TRUE, link |-> positions(Len(docs))]

fresh(docs) == [docs |-> docs, same |-> FALSE, link |-> none(Len(docs))]

deepCopy_none(o) == o

\* @firebase/util deepCopy: a new array of new plain records with the same
\* fields; an object that is no plain object (a document reference) is
\* handed on as it is
deepCopy(o) == [docs |-> o.docs, same |-> FALSE, link |-> none(Len(o.docs))]

----------------------------------------------------------------------------
(* Input domains *)

\* a record has no ref, the ref its snapshot delivered with it ("own"), a ref
\* the caller built with doc(colRef, id), or the ref of another document
RefChoices == {"none", "own", "built", "foreign"}

Rec(id, r, v) ==
    CASE r = "none"      -> [id |-> id, v |-> v]
      [] r = "undefined" -> [id |-> id, ref |-> Undefined, v |-> v]
      [] r = "own"       -> [id |-> id, ref |-> SnapshotRef(id), v |-> v]
      [] r = "built"     -> [id |-> id, ref |-> DocRef(id), v |-> v]
      [] r = "foreign"   -> [id |-> id, ref |-> ForeignRef(id), v |-> v]

\* the values the backend reports for the field of a document
FieldVals(id) == IF id = "a" THEN Vals \cup {NaN} ELSE Vals

\* the records callers put in the arrays they pass to set: of identity "a"
\* without a ref, with the delivered ref or with the ref of another document,
\* of identity "b" with the delivered ref or a ref built with doc()
Records ==
    {Rec("a", "none", 1), Rec("a", "foreign", 1), Rec("b", "built", 1)}
        \cup {Rec("a", "own", v) : v \in FieldVals("a")}
        \cup {Rec("b", "own", v) : v \in FieldVals("b")}

\* records whose ref is there and undefined
UndefinedRefRecords == {Rec("a", "undefined", 1)}

\* records handed to add and delete: with an identity, an empty one or none,
\* with a ref, a null or undefined one or none
LooseRecords ==
    {Rec("a", r, 1) : r \in RefChoices}
        \cup {[v |-> 1], [ref |-> ForeignRef("a"), v |-> 1]}
        \cup {[id |-> "", v |-> 1], [id |-> "a", ref |-> Null, v |-> 1]}
        \cup UndefinedRefRecords

\* the arrays callers build and pass to set: identities are unique in a
\* collection; records in the order of the snapshots, and the delivered
\* records in another order
Collections ==
    {<<>>} \cup {<<r>> : r \in Records \cup UndefinedRefRecords}
        \cup {<<r, s>> : r \in {t \in Records : t.id = "a"},
                         s \in {t \in Records : t.id = "b"}}
        \cup {<<Rec("b", "own", w), Rec("a", "own", v)>> :
                 v \in FieldVals("a"), w \in FieldVals("b")}

\* the ways the records of a new array c can be record objects of internalDocs:
\* only objects held outside the store can be put in it, each at most once
Links(c) ==
    {l \in [1..Len(c) -> 0..Len(internalDocs)] :
        /\ \A i \in 1..Len(c) : l[i] # 0 => exposed /\ internalDocs[l[i]] = c[i]
        /\ \A i, j \in 1..Len(c) : (i # j /\ l[i] # 0) => l[i] # l[j]}

\* the arguments of set: nothing, a new array (of new records and of record
\* objects the caller holds), the array x that is the store's value and its
\* copy [...x], and, when it is held outside, the internalDocs array and its copy
SetArgs ==
    {Null, Undefined}
        \cup UNION {{[docs |-> c, same |-> FALSE, link |-> l] : l \in Links(c)} :
                        c \in Collections}
        \cup {[docs |-> value, same |-> s, link |-> linked] : s \in {shared, FALSE}}
        \cup (IF exposed
              THEN {[docs |-> internalDocs, same |-> s,
                     link |-> positions(Len(internalDocs))] : s \in BOOLEAN}
              ELSE {})

\* what the backend reports: the documents of a subset of Ids, in id order
SnapshotDocs(S, f) ==
    LET ord == SelectSeq(IdOrder, LAMBDA i : i \in S)
    IN  [k \in 1..Len(ord) |-> [id |-> ord[k], data |-> [v |-> f[ord[k]]]]]

QuerySnapshots ==
    UNION {{SnapshotDocs(S, f) : f \in {g \in [S -> Vals \cup {NaN}] :
                                          \A i \in S : g[i] \in FieldVals(i)}} :
              S \in SUBSET Ids}

DocData == {[v |-> v] : v \in Vals}

Users == {[uid |-> "u1"], [uid |-> "u2"]}

\* the optional id argument of add; "" stands for an omitted id
IdArgs == {"", "k"}

----------------------------------------------------------------------------
(* The state after construction *)

StartValues(k, l) ==
    CASE k = "doc"  -> {Undefined, [v |-> 1]}
      [] k = "col"  -> {<<>>, <<Rec("a", "none", 1)>>}
      [] k = "user" -> IF l THEN {Null, [uid |-> "u1"]} ELSE {Null}

Init ==
    /\ kind \in {"doc", "col", "user"}
    /\ live \in BOOLEAN
    /\ colType \in (IF kind = "col" /\ live THEN {"collection", "query"} ELSE {"none"})
    /\ subscribers = {}
    /\ listeners = 0
    /\ value \in StartValues(kind, live)
    /\ internalDocs = <<>>
    /\ shared = FALSE
    /\ linked = IF kind = "col" THEN none(Len(value)) ELSE <<>>
    /\ exposed = FALSE
    /\ last = [op |-> "init"]

----------------------------------------------------------------------------
(* svelte/store writable(value, start) *)

\* subscribe runs the start notifier when the new subscriber is the only one
startsListener_always(subs) == TRUE

startsListener(subs) == subs = {}

\* the unsubscriber runs the stop notifier when no subscriber is left
stopsListener(subs) == subs = {}

hasStart_always(l) == TRUE

\* the store has a start notifier unless it is the fallback writable(startWith)
hasStart(l) == l

\* set(new_value): objects always replace the value (safe_not_equal)
writableSet_stale(current, new_value) == current

writableSet(current, new_value) == new_value

subscribe(c) ==
    /\ c \notin subscribers
    /\ subscribers' = subscribers \cup {c}
    /\ listeners' = IF hasStart(live) /\ startsListener(subscribers)
                    THEN listeners + 1
                    ELSE listeners
    /\ last' = [op |-> "subscribe"]
    /\ UNCHANGED <<kind, live, colType, value, internalDocs, shared, linked, exposed>>

unsubscribe(c) ==
    /\ c \in subscribers
    /\ subscribers' = subscribers \ {c}
    /\ listeners' = IF hasStart(live) /\ stopsListener(subscribers')
                    THEN listeners - 1
                    ELSE listeners
    /\ last' = [op |-> "unsubscribe"]
    /\ UNCHANGED <<kind, live, colType, value, internalDocs, shared, linked, exposed>>

----------------------------------------------------------------------------
(* Backend callbacks *)

\* { id: s.id, ref: s.ref, ...s.data() }: the data's fields are spread last
decode(s) == s.data @@ [id |-> s.id, ref |-> SnapshotRef(s.id)]

decodeAll(docs) == [k \in 1..Len(docs) |-> decode(docs[k])]

\* onSnapshot callback of collectionStore
onCollectionSnapshot(snapshot) ==
    /\ kind = "col" /\ live /\ listeners > 0
    /\ internalDocs' = decodeAll(snapshot)
    /\ LET published == writableSet(fresh(value), deepCopy(internalRef(internalDocs')))
       IN  value' = published.docs /\ shared' = published.same
           /\ linked' = published.link
           /\ exposed' = published.same
    /\ last' = [op |-> "notify", state |-> decodeAll(snapshot), snapshot |-> snapshot,
                diverged |-> (value # internalDocs)]
    /\ UNCHANGED <<kind, live, colType, subscribers, listeners>>

docState_undefined(data) == data

\* (snapshot.data() as T) ?? null
docState(data) == IF data = Undefined THEN Null ELSE data

\* onSnapshot callback of docStore; data is Undefined when the document does not exist
onDocSnapshot(data) ==
    /\ kind = "doc" /\ live /\ listeners > 0
    /\ value' = writableSet(value, docState(data))
    /\ last' = [op |-> "notify", state |-> docState(data), data |-> data,
                diverged |-> (last.op = "update")]
    /\ UNCHANGED <<kind, live, colType, subscribers, listeners, internalDocs,
                   shared, linked, exposed>>

\* onAuthStateChanged callback of userStore
onAuthStateChanged(user) ==
    /\ kind = "user" /\ live /\ listeners > 0
    /\ value' = writableSet(value, user)
    /\ last' = [op |-> "notify", state |-> user]
    /\ UNCHANGED <<kind, live, colType, subscribers, listeners, internalDocs,
                   shared, linked, exposed>>

----------------------------------------------------------------------------
(* docStore: update and set *)

EmptyObject == [f \in {} |-> TRUE]

DocStoreRef == [col |-> "col", id |-> "d"]

nextVal(v) == IF v + 1 \in Vals THEN v + 1 ELSE 1

\* the updaters a caller passes to docStore.update
DocUpdaters == {[kind |-> "identity"], [kind |-> "next"]}

applyDocUpdater(fn, previousDoc) ==
    CASE fn.kind = "identity" -> previousDoc
      [] fn.kind = "const"    -> fn.value
      [] fn.kind = "next"     -> IF falsy(previousDoc)
                                 THEN [v |-> 1]
                                 ELSE [previousDoc EXCEPT !.v = nextVal(@)]

docWrite_deleteOnNull(newDoc) ==
    IF falsy(newDoc)
    THEN <<[type |-> "deleteDoc", ref |-> DocStoreRef]>>
    ELSE <<[type |-> "setDoc", ref |-> DocStoreRef, data |-> newDoc]>>

\* the write of one updateDocument call
docWrite(newDoc) ==
    IF falsy(newDoc)
    THEN <<[type |-> "setDoc", ref |-> DocStoreRef, data |-> EmptyObject]>>
    ELSE <<[type |-> "setDoc", ref |-> DocStoreRef, data |-> newDoc]>>

updateDocument(updater) ==
    /\ kind = "doc" /\ live
    /\ LET newDoc == applyDocUpdater(updater, value)
       IN  /\ value' = writableSet(value, newDoc)
           /\ last' = [op |-> "update", fn |-> updater, arg |-> value,
                       result |-> newDoc,
                       ops |-> docWrite(newDoc), threw |-> FALSE,
                       chained |-> (last.op = "update")]
    /\ UNCHANGED <<kind, live, colType, subscribers, listeners, internalDocs,
                   shared, linked, exposed>>

setDocument(v) == updateDocument([kind |-> "const", value |-> v])

----------------------------------------------------------------------------
(* collectionStore: update and set *)

\* changes made in place to an array: x[idx].v = v and x.splice(idx, 1)
InPlace(arg) ==
    {[kind |-> "mutate", idx |-> p[1], v |-> p[2]] :
        p \in {q \in (1..Len(arg)) \X Vals : arg[q[1]].v # q[2]}}
        \cup {[kind |-> "splice", idx |-> i] : i \in 1..Len(arg)}

\* x.push(rec) of a new record object that carries a ref built with doc():
\* its identity is new to the array, or one the array holds already
Pushes(arg) ==
    IF Len(arg) < Cardinality(Ids)
    THEN {[kind |-> "push", rec |-> Rec("a", "built", 1)]}
    ELSE {}

\* x => x.filter(d => d.id !== id): a new array of the remaining record objects
Filters(arg) == {[kind |-> "filter", id |-> i] : i \in ids(arg)}

\* x => x.map(d => d.id === id ? { ...d, v: to } : d): a new array holding a
\* changed copy of the records of identity id and the other record objects
Maps(arg) ==
    {[kind |-> "map", id |-> arg[p[1]].id, to |-> p[2]] :
        p \in {q \in (1..Len(arg)) \X Vals : arg[q[1]].v # q[2]}}

\* x => { x[idx].v = v; return x.map(d => d.id === id ? { ...d, v: to } : d) }:
\* one record changed in place and the changed copy of another one returned
MutateMaps(arg) ==
    UNION {{[kind |-> "mutateMap", idx |-> m.idx, v |-> m.v, id |-> f.id, to |-> f.to] :
               f \in {g \in Maps(arg) : g.id # arg[m.idx].id}} :
              m \in {n \in InPlace(arg) : n.kind = "mutate"}}

\* the updaters a caller passes to collectionStore.update, given the array it
\* will receive: x => x, x => { <change x in place>; return x }, x => x.filter(...),
\* x => x.map(...) and x => { <change x in place>; return x.map(...) }
ColUpdaters(arg) ==
    {[kind |-> "identity"]} \cup InPlace(arg) \cup Pushes(arg) \cup Filters(arg)
        \cup Maps(arg) \cup MutateMaps(arg)

\* x.splice(idx, 1)
splice(arg, idx) == SubSeq(arg, 1, idx - 1) \o SubSeq(arg, idx + 1, Len(arg))

\* the array the updater was handed, once the updater has run
argAfter(fn, arg) ==
    CASE fn.kind \in {"mutate", "mutateMap"} -> [arg EXCEPT ![fn.idx].v = fn.v]
      [] fn.kind = "splice"                  -> splice(arg, fn.idx)
      [] fn.kind = "push"                    -> Append(arg, fn.rec)
      [] OTHER                               -> arg

\* x.map(d => d.id === id ? { ...d, v: to } : d), as the reference of its result
mapped(x, id, to) ==
    [docs |-> [k \in 1..Len(x) |-> IF x[k].id = id THEN [x[k] EXCEPT !.v = to] ELSE x[k]],
     same |-> FALSE,
     link |-> [k \in 1..Len(x) |-> IF x[k].id = id THEN 0 ELSE k]]

\* x.filter(d => d.id !== id), as the reference of its result
filtered(x, id) ==
    LET kept == SelectSeq(positions(Len(x)), LAMBDA k : x[k].id # id)
    IN  [docs |-> [k \in 1..Len(kept) |-> x[kept[k]]], same |-> FALSE, link |-> kept]

\* the updater's return value, given its argument internalDocs: the reference
\* of an array, or null or undefined. x => x and the in-place updaters return
\* internalDocs itself, () => value returns value as it is, filter and map
\* return a new array that holds record objects of internalDocs
returned(fn, arg) ==
    CASE fn.kind = "identity" -> internalRef(arg)
      [] fn.kind = "const"    -> fn.value
      [] fn.kind \in {"mutate", "splice", "push"} -> internalRef(argAfter(fn, arg))
      [] fn.kind = "filter"   -> filtered(arg, fn.id)
      [] fn.kind \in {"map", "mutateMap"} -> mapped(argAfter(fn, arg), fn.id, fn.to)

\* r || []
orEmpty(r) == IF falsy(r) THEN fresh(<<>>) ELSE r

\* updater(internalDocs) || []
applyColUpdater(fn, arg) == orEmpty(returned(fn, arg)).docs

\* internalDocs.find(doc => newDoc.id === doc.id): index of the first match, 0 if none
find(docs, newDoc) ==
    IF \E i \in 1..Len(docs) : docs[i].id = newDoc.id
    THEN CHOOSE i \in 1..Len(docs) :
             /\ docs[i].id = newDoc.id
             /\ \A j \in 1..(i - 1) : docs[j].id # newDoc.id
    ELSE 0

\* the filter callback: the destructurings take out the properties named
\* oldRef and newRef, so oldData and newData keep the property ref
isUpdated(newDoc, docs, alike) ==
    LET i == find(docs, newDoc)
    IN  IF i = 0
        THEN TRUE
        ELSE ~deepEqual(Rest(docs[i], "oldRef"), Rest(newDoc, "newRef"), alike)

updatedDocuments(newCollection, docs, alike) ==
    SelectSeq(newCollection, LAMBDA newDoc : isUpdated(newDoc, docs, alike))

\* the loop over updatedDocuments: setDoc(ref, data) for the documents with a ref
setDocs(documents) ==
    LET withRef == SelectSeq(documents, LAMBDA d : has(d, "ref"))
    IN  [k \in 1..Len(withRef) |->
            [type |-> "setDoc", ref |-> withRef[k].ref, data |-> Rest(withRef[k], "ref")]]

remoteOps_deleteOmitted(newCollection, docs, alike) ==
    LET gone == SelectSeq(docs, LAMBDA d :
                    \A i \in 1..Len(newCollection) : newCollection[i].id # d.id)
    IN  setDocs(updatedDocuments(newCollection, docs, alike))
            \o [k \in 1..Len(gone) |-> [type |-> "deleteDoc", ref |-> gone[k].ref]]

\* the backend operations of one updateCollection call
remoteOps(newCollection, docs, alike) ==
    setDocs(updatedDocuments(newCollection, docs, alike))

\* the links of an array to the record objects of internalDocs, once change m
\* has been made to internalDocs in place: a record spliced out is no record
\* of internalDocs any more, and the records behind it move up
linkAfter(m, link) ==
    IF m.kind = "splice"
    THEN [k \in 1..Len(link) |->
             IF link[k] = m.idx THEN 0
             ELSE IF link[k] > m.idx THEN link[k] - 1 ELSE link[k]]
    ELSE link

\* the content of array v, which holds record objects of internalDocs as link
\* says, when internalDocs has content docs
through(v, link, docs) ==
    [k \in 1..Len(v) |-> IF link[k] # 0 THEN docs[link[k]] ELSE v[k]]

\* the store's value, as a reference, once change m has been made to
\* internalDocs in place and internalDocs has content docs
valueAfter(m, docs) ==
    IF shared
    THEN internalRef(docs)
    ELSE [docs |-> through(value, linkAfter(m, linked), docs),
          same |-> FALSE,
          link |-> linkAfter(m, linked)]

\* what deepEqual can find when it compares the references of the records of
\* newCollection with those of their prior records: an outcome is open only
\* when two different reference objects of one document are compared
Outcomes(newCollection, docs) ==
    IF \E i \in 1..Len(newCollection) :
          LET new == newCollection[i]
              j   == find(docs, new)
          IN  /\ j # 0 /\ "ref" \in DOMAIN new /\ "ref" \in DOMAIN docs[j]
              /\ new.ref # docs[j].ref
              /\ sameProp("ref", new.ref, docs[j].ref, TRUE)
    THEN BOOLEAN
    ELSE {FALSE}

\* alike: whether deepEqual finds a reference built by doc() equal to the
\* reference a snapshot carries for the same document
updateCollection(updater) ==
    /\ kind = "col" /\ live
    /\ \E alike \in Outcomes(applyColUpdater(updater, internalDocs),
                             argAfter(updater, internalDocs)) :
         LET newCollection == applyColUpdater(updater, internalDocs)
             docs          == argAfter(updater, internalDocs)
             current       == valueAfter(updater, docs)
             result        == orEmpty(returned(updater, internalDocs))
             published     == writableSet(current, result)
         IN  /\ internalDocs' = docs
             /\ value' = published.docs
             /\ shared' = published.same
             /\ linked' = published.link
             /\ exposed' = (exposed \/ updater.kind # "const")
             /\ last' = [op |-> "update", fn |-> updater, arg |-> internalDocs,
                         result |-> newCollection,
                         ops |-> remoteOps(newCollection, docs, alike), threw |-> FALSE]
    /\ UNCHANGED <<kind, live, colType, subscribers, listeners>>

\* v is the reference of an array, null or undefined; the updater is the
\* store's own () => value, which drops the array it is handed
setCollection(v) == updateCollection([kind |-> "const", value |-> v])

\* the changes a consumer can make in place to the value delivered to it: to
\* an array and its records, to a field of a record, to a field of a user
Changes(k, val) ==
    CASE k = "col"  -> InPlace(val)
      [] k = "doc"  -> IF "v" \in DOMAIN val
                       THEN {[kind |-> "assign", field |-> "v", to |-> n] :
                                n \in Vals \ {val.v}}
                       ELSE {}
      [] k = "user" -> IF "uid" \in DOMAIN val
                       THEN {[kind |-> "assign", field |-> "uid", to |-> u.uid] :
                                u \in Users \ {val}}
                       ELSE {}

\* the changes that can be made to the internalDocs array and its records by
\* code outside the store that holds them: every updater passed to update was
\* handed the array (line 117)
HeldChanges ==
    IF exposed /\ ~shared THEN InPlace(internalDocs) ELSE {}

\* internalDocs once change m has been made to the array that is the store's
\* value: the same change when the value is the internalDocs array, the
\* change of the record object when the changed record is one of internalDocs
behind(m) ==
    IF shared
    THEN argAfter(m, internalDocs)
    ELSE IF m.kind = "mutate" /\ linked[m.idx] # 0
         THEN [internalDocs EXCEPT ![linked[m.idx]].v = m.v]
         ELSE internalDocs

\* code outside the store changes in place an object the store handed out (to a
\* subscriber, attached or not any more, or to an updater) or was given
\* (startWith, the argument of set): held = "value" when the object is the
\* array that is the store's value or one of its records, "earlier" when it is
\* the internalDocs array or one of its records
consumerMutate(held, m) ==
    /\ IF kind = "col"
       THEN IF held = "value"
            THEN /\ internalDocs' = behind(m)
                 /\ linked' = IF shared THEN positions(Len(internalDocs'))
                              ELSE IF m.kind = "splice" THEN splice(linked, m.idx)
                              ELSE linked
                 /\ value' = through(argAfter(m, value), linked', internalDocs')
            ELSE /\ internalDocs' = argAfter(m, internalDocs)
                 /\ linked' = valueAfter(m, internalDocs').link
                 /\ value' = valueAfter(m, internalDocs').docs
       ELSE /\ value' = [value EXCEPT ![m.field] = m.to]
            /\ UNCHANGED <<internalDocs, linked>>
    /\ last' = [op |-> "consumerMutate", afterNotify |-> (last.op = "notify")]
    /\ UNCHANGED <<kind, live, colType, subscribers, listeners, shared, exposed>>

----------------------------------------------------------------------------
(* collectionStore: add and delete *)

isQuery_never(type) == FALSE

\* colRef.type !== 'collection'
isQuery(type) == type # "collection"

\* id || value.id ; "" stands for an omitted or empty id
docId(v, id) == IF id # "" THEN id ELSE IF has(v, "id") THEN v.id ELSE ""

addOps_both(v, id) ==
    IF docId(v, id) # ""
    THEN <<[type |-> "setDoc", ref |-> DocRef(docId(v, id)), data |-> v],
           [type |-> "addDoc", col |-> "col", data |-> v]>>
    ELSE <<[type |-> "addDoc", col |-> "col", data |-> v]>>

\* the two guarded calls of addDocument
addOps(v, id) ==
    (IF docId(v, id) # ""
     THEN <<[type |-> "setDoc", ref |-> DocRef(docId(v, id)), data |-> v]>>
     ELSE <<>>)
    \o
    (IF docId(v, id) = ""
     THEN <<[type |-> "addDoc", col |-> "col", data |-> v]>>
     ELSE <<>>)

addDocument(v, id) ==
    /\ kind = "col" /\ live
    /\ last' = [op |-> "add", value |-> v, id |-> id,
                docs |-> internalDocs, local |-> value,
                ops |-> IF isQuery(colType) THEN <<>> ELSE addOps(v, id),
                threw |-> isQuery(colType)]
    /\ UNCHANGED <<kind, live, colType, subscribers, listeners, value, internalDocs,
                   shared, linked, exposed>>

resolveRef_ignoreType(document, type) ==
    IF has(document, "ref")
    THEN [ref |-> document.ref, threw |-> FALSE]
    ELSE IF has(document, "id")
         THEN [ref |-> DocRef(document.id), threw |-> FALSE]
         ELSE [ref |-> NoRef, threw |-> TRUE]

\* the reference removeDocument deletes, or the error it throws: doc(colRef, undefined)
\* throws on its empty path, and a missing ref throws after the type test
resolveRef(document, type) ==
    IF has(document, "ref")
    THEN [ref |-> document.ref, threw |-> FALSE]
    ELSE IF type = "collection"
         THEN IF has(document, "id")
              THEN [ref |-> DocRef(document.id), threw |-> FALSE]
              ELSE [ref |-> NoRef, threw |-> TRUE]
         ELSE [ref |-> NoRef, threw |-> TRUE]

removeDocument(document) ==
    /\ kind = "col" /\ live
    /\ LET r == resolveRef(document, colType)
       IN  last' = [op |-> "delete", document |-> document,
                    docs |-> internalDocs, local |-> value,
                    ops |-> IF r.threw THEN <<>>
                            ELSE <<[type |-> "deleteDoc", ref |-> r.ref]>>,
                    threw |-> r.threw]
    /\ UNCHANGED <<kind, live, colType, subscribers, listeners, value, internalDocs,
                   shared, linked, exposed>>

----------------------------------------------------------------------------
(* Rejected writes *)

rejected_rollback(current, before) == before

\* the store's value once a write's promise rejects: the promises of setDoc,
\* addDoc and deleteDoc are dropped, no handler runs
rejected(current, before) == current

\* the backend calls made because a write was rejected: none
retryOps(op) == <<>>

\* the k-th write of the most recent call is rejected by the backend
writeFailed(k) ==
    /\ last.op \in {"update", "add", "delete"}
    /\ k \in 1..Len(last.ops)
    /\ value' = rejected(value, IF last.op = "update" THEN last.arg ELSE last.local)
    /\ last' = [op |-> "writeFailed", call |-> last.op, local |-> value,
                docs |-> internalDocs, ops |-> retryOps(last.ops[k])]
    /\ UNCHANGED <<kind, live, colType, subscribers, listeners, internalDocs,
                   shared, linked, exposed>>

----------------------------------------------------------------------------
(* Specifications *)

Lifecycle ==
    \/ \E c \in Consumers : subscribe(c)
    \/ \E c \in Consumers : unsubscribe(c)

Notification ==
    \/ \E s \in QuerySnapshots : onCollectionSnapshot(s)
    \/ \E d \in DocData \cup {Undefined} : onDocSnapshot(d)
    \/ \E u \in Users \cup {Null} : onAuthStateChanged(u)

DocMutation ==
    \/ \E fn \in DocUpdaters : updateDocument(fn)
    \/ \E v \in DocData \cup {Null} : setDocument(v)

ColUpdate == \E fn \in ColUpdaters(internalDocs) : updateCollection(fn)

ColSet == kind = "col" /\ \E v \in SetArgs : setCollection(v)

Consumer ==
    \/ \E m \in Changes(kind, value) : consumerMutate("value", m)
    \/ kind = "col" /\ \E m \in HeldChanges : consumerMutate("earlier", m)

Failure ==
    last.op \in {"update", "add", "delete"} /\ \E k \in 1..Len(last.ops) : writeFailed(k)

ColAddDelete ==
    \/ \E v \in LooseRecords, id \in IdArgs : addDocument(v, id)
    \/ \E d \in LooseRecords : removeDocument(d)

\* every method and callback of the three stores
Next ==
    \/ Lifecycle
    \/ Notification
    \/ DocMutation
    \/ ColUpdate
    \/ ColSet
    \/ Consumer
    \/ Failure
    \/ ColAddDelete

Spec == Init /\ [][Next]_vars

\* subscribe, the callbacks, update and set, and the in-place changes made
\* outside the store. add and delete read colRef.type and their arguments only
\* and assign no variable of the store, and a rejected write runs no code of
\* the store: they are followed in SpecCrud, from the states the other methods
\* and callbacks reach without set
NextSync ==
    \/ Lifecycle
    \/ Notification
    \/ DocMutation
    \/ ColUpdate
    \/ ColSet
    \/ Consumer

\* update, set and the callbacks never read colRef.type (only add and delete
\* do), so SpecSync follows the collection stores built on a plain collection
InitSync == Init /\ colType # "query"

SpecSync == InitSync /\ [][NextSync]_vars

NextCrud ==
    \/ Lifecycle
    \/ Notification
    \/ DocMutation
    \/ ColUpdate
    \/ Consumer
    \/ Failure
    \/ ColAddDelete

SpecCrud == Init /\ [][NextCrud]_vars

----------------------------------------------------------------------------
(* Properties *)

\* the variables that tell which objects are one and the same agree with the
\* contents: one object has one content
ObjectsConsistent ==
    kind = "col" =>
        /\ Len(linked) = Len(value)
        /\ \A k \in 1..Len(value) :
              /\ linked[k] \in 0..Len(internalDocs)
              /\ linked[k] # 0 => exposed /\ value[k] = internalDocs[linked[k]]
        /\ shared => exposed /\ value = internalDocs /\ linked = positions(Len(value))

nonRef(r) == Rest(r, "ref")

\* the record of docs with the identity of r
priorOf(r, docs) == docs[find(docs, r)]

hasPrior(r, docs) == find(docs, r) # 0

\* number of writes of record r, through its reference and with its non-reference fields
writesOf(ops, r) ==
    Cardinality({k \in 1..Len(ops) :
        ops[k].type = "setDoc" /\ ops[k].ref = r.ref /\ ops[k].data = nonRef(r)})

\* some operation carries the identity of r as payload
written(ops, r) == \E k \in 1..Len(ops) : ops[k].type = "setDoc" /\ ops[k].data.id = r.id

omitted(d, collection) == \A i \in 1..Len(collection) : collection[i].id # d.id

isPermutation(s, t) ==
    /\ Len(s) = Len(t)
    /\ \E p \in [1..Len(s) -> 1..Len(s)] :
          /\ \A i, j \in 1..Len(s) : p[i] = p[j] => i = j
          /\ \A i \in 1..Len(s) : s[i] = t[p[i]]

colUpdated == kind = "col" /\ last.op = "update"

\* C1: on a live store the number of open backend listeners is 1 exactly when a
\* consumer is attached and 0 otherwise; a listener is opened only by the step
\* that attaches the first consumer and closed only by the step that detaches
\* the last one, and no step opens or closes more than one.
C1_ListenerRefcount ==
    /\ [](live => listeners = IF subscribers = {} THEN 0 ELSE 1)
    /\ [][live =>
            /\ (listeners' = listeners + 1) <=> (subscribers = {} /\ subscribers' # {})
            /\ (listeners' = listeners - 1) <=> (subscribers # {} /\ subscribers' = {})
            /\ listeners' \in {listeners - 1, listeners, listeners + 1}]_vars

\* one of several overlapping consumers has detached and the listener is still open
C1_Witness ==
    live /\ last.op = "unsubscribe" /\ subscribers # {} /\ listeners = 1

\* C2 (as claimed): after update(fn), every record of fn's result that carries a
\* reference, has a record of the same identity in the Remote Snapshot the call
\* started from, and differs from it in a non-reference field, has been written
\* exactly once through its reference with its non-reference fields.
C2_DirtyWrittenOnce ==
    colUpdated =>
        \A i \in 1..Len(last.result) :
            LET r == last.result[i]
            IN  (/\ has(r, "ref")
                 /\ hasPrior(r, last.arg)
                 /\ nonRef(r) # nonRef(priorOf(r, last.arg)))
                => writesOf(last.ops, r) = 1

\* C3 (as claimed): after update(fn), a record of fn's result whose non-reference
\* fields equal those of the Remote Snapshot record of the same identity has not
\* been written, whatever its reference field.
C3_UnchangedNeverWritten ==
    colUpdated =>
        \A i \in 1..Len(last.result) :
            LET r == last.result[i]
            IN  (hasPrior(r, last.arg) /\ nonRef(r) = nonRef(priorOf(r, last.arg)))
                => ~written(last.ops, r)

\* C4 (as claimed): update(x => x) issues no backend operation (no write, no
\* delete) in any state.
C4_IdentityUpdateNoOps ==
    (colUpdated /\ last.fn.kind = "identity") => last.ops = <<>>

\* C5 (as claimed): an update whose result is a permutation of the Remote
\* Snapshot (the same records with the same fields, in another order) issues
\* no write.
C5_PermutationNoWrites ==
    (colUpdated /\ isPermutation(last.result, last.arg) /\ last.result # last.arg)
        => last.ops = <<>>

\* C6: when update(fn) or set(value) has returned, the Local Snapshot is fn's
\* result (the value), for the record store and for the collection store.
C6_ReadYourWrite ==
    (last.op = "update") =>
        value = IF kind = "col"
                THEN applyColUpdater(last.fn, last.arg)
                ELSE applyDocUpdater(last.fn, last.arg)

\* a set to a value that leads the Remote Snapshot, with no listener open
C6_Witness ==
    /\ colUpdated /\ last.fn.kind = "const"
    /\ Len(value) = 2 /\ value # internalDocs /\ listeners = 0

\* C7: update and set issue no delete; a record of the Remote Snapshot that the
\* result omits is the target of no operation and is absent from the Local
\* Snapshot; after a notification every record it carries is in the Local Snapshot.
C7_OmissionIsLocal ==
    /\ colUpdated =>
          /\ \A k \in 1..Len(last.ops) : last.ops[k].type # "deleteDoc"
          /\ \A j \in 1..Len(last.arg) :
                omitted(last.arg[j], last.result) =>
                   /\ \A k \in 1..Len(last.ops) : last.ops[k].ref # last.arg[j].ref
                   /\ \A i \in 1..Len(value) : value[i].id # last.arg[j].id
    /\ (kind = "col" /\ last.op = "notify") =>
          \A j \in 1..Len(last.state) :
              \E i \in 1..Len(value) : value[i] = last.state[j]

\* an update omitted one record of the Remote Snapshot and wrote another
C7_Witness ==
    /\ colUpdated /\ last.ops # <<>>
    /\ \E j \in 1..Len(last.arg) : omitted(last.arg[j], last.result)

\* C8: add on a query throws, issues no backend operation and leaves both snapshots.
C8_AddOnQueryRejects ==
    (last.op = "add" /\ colType = "query") =>
        /\ last.threw
        /\ last.ops = <<>>
        /\ value = last.local
        /\ internalDocs = last.docs

\* add with an identity was called on a query store holding records
C8_Witness ==
    /\ last.op = "add" /\ colType = "query" /\ last.threw
    /\ has(last.value, "id") /\ internalDocs # <<>>

\* C9: add on a plain collection issues exactly one operation: an upsert at the
\* explicit id, else at the record's id, else one generated-identity insertion.
C9_AddExactlyOne ==
    (last.op = "add" /\ colType = "collection") =>
        LET want == IF last.id # "" THEN last.id
                    ELSE IF has(last.value, "id") THEN last.value.id ELSE ""
        IN  /\ ~last.threw
            /\ Len(last.ops) = 1
            /\ IF want # ""
               THEN last.ops[1] = [type |-> "setDoc", ref |-> DocRef(want),
                                   data |-> last.value]
               ELSE last.ops[1] = [type |-> "addDoc", col |-> "col",
                                   data |-> last.value]

\* add with an explicit id that differs from the record's own id
C9_Witness ==
    /\ last.op = "add" /\ colType = "collection"
    /\ last.id # "" /\ has(last.value, "id") /\ last.value.id # last.id
    /\ Len(last.ops) = 1

\* C10: delete issues exactly one delete at the record's reference, or at the
\* reference rebuilt from its identity on a plain collection; with no
\* resolvable reference it throws and issues nothing.
C10_DeleteResolvesRef ==
    (last.op = "delete") =>
        LET d == last.document
        IN  IF has(d, "ref")
            THEN ~last.threw /\ last.ops = <<[type |-> "deleteDoc", ref |-> d.ref]>>
            ELSE IF colType = "collection" /\ has(d, "id")
                 THEN /\ ~last.threw
                      /\ last.ops = <<[type |-> "deleteDoc", ref |-> DocRef(d.id)]>>
                 ELSE last.threw /\ last.ops = <<>>

\* delete of a record with identity and no reference was rejected on a query store
C10_Witness ==
    /\ last.op = "delete" /\ colType = "query" /\ last.threw
    /\ has(last.document, "id") /\ ~has(last.document, "ref")

\* C11: docStore.update(fn) applies fn to the Local Snapshot, publishes the result
\* and issues exactly one write on the store's reference: of the empty object when
\* the result is null (or undefined), of the result otherwise; it never deletes.
C11_DocUpdateOneWrite ==
    (kind = "doc" /\ last.op = "update") =>
        LET res == applyDocUpdater(last.fn, last.arg)
        IN  /\ value = res
            /\ last.ops = <<[type |-> "setDoc", ref |-> DocStoreRef,
                             data |-> IF falsy(res) THEN EmptyObject ELSE res]>>

\* a second local update derived its result from the result of the first, with
\* no listener open
C11_Witness ==
    /\ kind = "doc" /\ last.op = "update" /\ last.chained /\ listeners = 0
    /\ last.fn.kind = "next" /\ ~falsy(last.arg) /\ value # last.arg

\* C12: collectionStore.update(fn) calls fn with the Remote Snapshot, the state
\* of the last notification, never with the Local Snapshot: an update that
\* directly follows another update (no notification in between) receives the
\* same argument as the first one did.
C12_UpdaterGetsRemoteSnapshot ==
    [][(colUpdated /\ last'.op = "update") => last'.arg = last.arg]_vars

\* the state a query snapshot carries: for each document, in order, its
\* identity, its reference and its fields
carried(snapshot) ==
    [k \in 1..Len(snapshot) |->
        [id |-> snapshot[k].id, ref |-> SnapshotRef(snapshot[k].id),
         v |-> snapshot[k].data.v]]

\* C13: right after a backend notification is processed, the Local Snapshot and
\* the Remote Snapshot equal the state the notification carried (null for a
\* record that does not exist), whatever local mutations were made before it.
C13_NotificationSetsBoth ==
    /\ (kind = "col" /\ last.op = "notify") =>
          value = carried(last.snapshot) /\ internalDocs = carried(last.snapshot)
    /\ (kind = "doc" /\ last.op = "notify") =>
          value = (IF last.data = Undefined THEN Null ELSE last.data)

\* a notification replaced a Local Snapshot that local mutations had made
\* differ from the Remote Snapshot; and one reported a record that does not exist
C13_Witness ==
    /\ last.op = "notify" /\ last.diverged
    /\ \/ kind = "col" /\ Len(last.snapshot) = 2
       \/ kind = "doc" /\ last.data = Undefined

\* C14: the Remote Snapshot exists only while a consumer is attached: when the
\* last consumer unsubscribes (here: right after a notification) it is reset to
\* its initial empty state.
C14_RemoteSnapshotResetOnStop ==
    [][(kind = "col" /\ last.op = "notify" /\ last'.op = "unsubscribe" /\ subscribers' = {})
          => internalDocs' = <<>>]_vars

\* C15: the value delivered on a backend notification is a copy of the Remote
\* Snapshot: a consumer that changes the delivered collection or a field of one
\* of its records in place leaves the Remote Snapshot equal to the state the
\* backend reported.
C15_DeliveredValueIsCopy ==
    [][(kind = "col" /\ last.op = "notify" /\ last'.op = "consumerMutate")
          => internalDocs' = internalDocs /\ internalDocs' = carried(last.snapshot)]_vars

\* a consumer changed the collection a notification had delivered, and the
\* Local Snapshot now differs from the Remote Snapshot
C15_Witness ==
    /\ kind = "col" /\ last.op = "consumerMutate" /\ last.afterNotify
    /\ value # internalDocs /\ Len(internalDocs) = 2

\* C16: the Remote Snapshot is never exposed on the update path: whatever the
\* updater does to its argument, update(fn) and set(v) leave the Remote
\* Snapshot equal to the state of the last backend notification.
C16_UpdateKeepsRemoteSnapshot ==
    [][(kind = "col" /\ last'.op = "update") => internalDocs' = internalDocs]_vars

\* C17: a rejected write causes no retry, no compensating backend call and no
\* rollback: the failure leaves the Local Snapshot (the optimistic value) and
\* the Remote Snapshot as they were.
C17_WriteFailureChangesNothing ==
    /\ [][last'.op = "writeFailed" =>
            /\ value' = value /\ internalDocs' = internalDocs
            /\ listeners' = listeners /\ subscribers' = subscribers]_vars
    /\ [](last.op = "writeFailed" => last.ops = <<>>)

\* a write of a collection update was rejected while a consumer was attached
\* and the Local Snapshot held a value the backend had not reported
C17_Witness ==
    /\ kind = "col" /\ last.op = "writeFailed" /\ last.call = "update"
    /\ subscribers # {} /\ value # internalDocs /\ value # <<>>

\* C18 (as claimed): the Local Snapshot of a store built without a backend
\* handle or outside a browser is the initial value forever: no step changes it.
C18_DegradedKeepsInitialValue ==
    [][~live => value' = value]_vars

\* C18 (amended): a store built without a backend handle or outside a browser
\* is a static store: subscribing opens no backend listener, it has no
\* update/set/add/delete, so no backend call or callback ever happens on it,
\* and it never replaces its Local Snapshot; the Local Snapshot changes only
\* when a consumer changes in place the object it was handed.
C18_DegradedIsStatic ==
    /\ [](~live => /\ listeners = 0 /\ internalDocs = <<>>
                   /\ last.op \in {"init", "subscribe", "unsubscribe", "consumerMutate"})
    /\ [][(~live /\ last'.op # "consumerMutate") => value' = value]_vars

\* every consumer is attached to a degraded collection mirror seeded with a
\* non-empty initial value, and one of them has changed that value in place
C18_Witness ==
    /\ ~live /\ kind = "col" /\ value # <<>>
    /\ subscribers = Consumers /\ last.op = "consumerMutate"

\* C19 (as claimed): on a mirror with a consumer attached, when a local
\* update/set has issued a write (which the backend accepts) and the backend's
\* notification has not come yet, the Local Snapshot holds the local value
\* while the Remote Snapshot still holds the previous backend state (the
\* notification then makes them equal again).
C19_LocalLeadsRemote ==
    (last.op = "update" /\ subscribers # {} /\ last.ops # <<>>) =>
        /\ value = last.result
        /\ kind = "col" => internalDocs = last.arg

\* C20: update/set never write a record of the result that carries no
\* reference, and a record of the result that is new (no record of its identity
\* in the Remote Snapshot the call started from) and carries a reference is
\* written exactly once.
C20_NewRecordWrites ==
    colUpdated =>
        \A i \in 1..Len(last.result) :
            LET r == last.result[i]
            IN  /\ ~has(r, "ref") => ~written(last.ops, r)
                /\ (has(r, "ref") /\ ~hasPrior(r, last.arg)) => writesOf(last.ops, r) = 1

====
